---- MODULE Spec2Model ----
(***************************************************************************)
(* A model of pipeline.py: the correlation of DICOM and i-contour files    *)
(* (_get_cid_by_did, _get_path_by_id, _get_dicom_contour_path_tups), the   *)
(* sequential sample stream (get_dicom_mask_tups) and the one-ahead batch  *)
(* loader (BatchFeeder).                                                   *)
(*                                                                         *)
(* File names and group ids are sequences of one-character strings, so    *)
(* that str.split, int() and the string order of sorted() are computed as  *)
(* Python computes them.                                                   *)
(***************************************************************************)
EXTENDS Integers, Sequences, FiniteSets, TLC

\* ------------------------------------------------------------------ bounds
\* rows of the link file
MaxRows == 2
\* directory entries of the directory given to a lone _get_path_by_id call
MaxEntries == 3
\* directory entries per group directory in a lone correlation pass
MaxFiles == 2
\* slices per group directory in a full run of part 1 or part 2
MaxSlices == 2
\* largest batch_size a BatchFeeder is built with
MaxBatchSize == 3
\* states of the random generator that shuffle() may find
RngStates == 3

\* ------------------------------------------------------- program constants
DICOM_DIR == "dicoms"
CONTOUR_DIR == "contourfiles"
I_CONTOURS == "i-contours"

\* ----------------------------------------------------------- Python values
\* an optional value: None, or a value v as Some(v)
None == <<>>

Some(v) == <<v>>

EmptyDict == [k \in {} |-> k]

DictPut(d, k, v) == [x \in (DOMAIN d) \cup {k} |-> IF x = k THEN v ELSE d[x]]

\* the characters of the model's strings, in code point order
Alphabet == <<"-", ".", "0", "1", "2", "3", "4", "5", "6", "7", "8", "9",
              "C", "I", "P", "c", "d", "x">>

Ord(c) == CHOOSE k \in 1..Len(Alphabet) : Alphabet[k] = c

DigitChars == <<"0", "1", "2", "3", "4", "5", "6", "7", "8", "9">>

IsDigit(c) == \E k \in 1..Len(DigitChars) : DigitChars[k] = c

DigitVal(c) == (CHOOSE k \in 1..Len(DigitChars) : DigitChars[k] = c) - 1

\* a < b for Python strings: the order sorted() puts str keys in
StrLess(a, b) ==
  \E k \in 1..(Len(b)) :
    /\ \A j \in 1..(k - 1) : j <= Len(a) /\ a[j] = b[j]
    /\ \/ k = Len(a) + 1
       \/ k <= Len(a) /\ Ord(a[k]) < Ord(b[k])

\* str.split(sep) for a one-character separator
RECURSIVE Split(_, _)
Split(s, sep) ==
  IF \A k \in 1..Len(s) : s[k] # sep
  THEN <<s>>
  ELSE LET k == CHOOSE i \in 1..Len(s) :
                  s[i] = sep /\ \A j \in 1..(i - 1) : s[j] # sep
       IN <<SubSeq(s, 1, k - 1)>> \o Split(SubSeq(s, k + 1, Len(s)), sep)

RECURSIVE DigitsValue(_)
DigitsValue(s) ==
  IF s = <<>> THEN 0
  ELSE 10 * DigitsValue(SubSeq(s, 1, Len(s) - 1)) + DigitVal(s[Len(s)])

Raised == [ok |-> FALSE, val |-> 0]

Returned(v) == [ok |-> TRUE, val |-> v]

\* int(s): an optional sign and one or more decimal digits, else ValueError
PyInt(s) ==
  LET signed == s # <<>> /\ s[1] = "-"
      body   == IF signed THEN Tail(s) ELSE s
  IN IF body # <<>> /\ \A k \in 1..Len(body) : IsDigit(body[k])
     THEN Returned(IF signed THEN 0 - DigitsValue(body) ELSE DigitsValue(body))
     ELSE Raised

\* os.path.join on paths kept as sequences of components
Join(base, f) == Append(base, f)

\* sorted() of a set of str
RECURSIVE SortedStr(_)
SortedStr(S) ==
  IF S = {} THEN <<>>
  ELSE LET m == CHOOSE x \in S : \A y \in S \ {x} : StrLess(x, y)
       IN <<m>> \o SortedStr(S \ {m})

\* sorted() of a set of int
RECURSIVE SortedInt(_)
SortedInt(S) ==
  IF S = {} THEN <<>>
  ELSE LET m == CHOOSE x \in S : \A y \in S : x <= y
       IN <<m>> \o SortedInt(S \ {m})

Range(s) == {s[k] : k \in 1..Len(s)}

Min(a, b) == IF a < b THEN a ELSE b

\* every enumeration order of a finite set
Enumerations(S) ==
  {q \in [1..Cardinality(S) -> S] : \A x \in S : \E k \in DOMAIN q : q[k] = x}

\* ------------------------------------------------------------------- state
VARIABLES
  \* the call under study and its arguments
  caller, link_fieldnames, link_rows, fs, randomize, random_seed, batch_size,
  \* the state of the generator of the random module, and the list an
  \* earlier call with the same arguments returned to the caller (None
  \* before the first call returns)
  rng, earlier_tups,
  \* _get_dicom_contour_path_tups: position and locals
  cpc, cid_by_did, d_ids, d_id, c_id, dicom_path_by_id, contour_path_by_id,
  path_tups,
  \* _get_path_by_id: position and locals
  ipc, base_path, get_id_func, listing, idx, path_by_id,
  \* get_dicom_mask_tups: position of the generator, the pairs loaded so far
  \* and the samples handed to the consumer
  spc, s_i, samples,
  \* BatchFeeder: position of the constructor, the fields of the object, the
  \* loader processes, position of get_next_batch and the batches handed out
  fpc, batch_num, have_next_batch, path_tups_chunked, q, procs, gpc, batches

inputs == <<caller, link_fieldnames, link_rows, fs, randomize, random_seed, batch_size>>

session == <<rng, earlier_tups>>

corr == <<cpc, cid_by_did, d_ids, d_id, c_id, dicom_path_by_id,
          contour_path_by_id, path_tups>>

index == <<ipc, base_path, get_id_func, listing, idx, path_by_id>>

stream == <<spc, s_i, samples>>

feeder == <<fpc, batch_num, have_next_batch, path_tups_chunked, q, procs, gpc,
            batches>>

vars == <<inputs, session, corr, index, stream, feeder>>

\* ------------------------------------------------------------- file system
\* group ids of the link file: "P10" sorts before "P2" as a string
DIds == {<<"P", "1", "0">>, <<"P", "2">>}

CIds == {<<"C", "1">>, <<"C", "2">>}

DicomBase(d) == Join(<<DICOM_DIR>>, d)

ContourBase(c) == Join(Join(<<CONTOUR_DIR>>, c), I_CONTOURS)

Dirs == {DicomBase(d) : d \in DIds} \cup {ContourBase(c) : c \in CIds}

File(name) == [name |-> name, isfile |-> TRUE]

SubDir(name) == [name |-> name, isfile |-> FALSE]

Missing == [exists |-> FALSE, entries |-> {}]

Dir(entries) == [exists |-> TRUE, entries |-> entries]

\* "1.d", "01.d", "2.d", "x.d" and a subdirectory "3"
DicomPool ==
  <<File(<<"1", ".", "d">>), File(<<"0", "1", ".", "d">>),
    File(<<"2", ".", "d">>), File(<<"x", ".", "d">>), SubDir(<<"3">>)>>

\* "I-0-1-c", "I-0-01-c", "I-0-2-c", "I-0-x-c", "I-0" and a subdirectory
\* "I-0-3-c"
ContourPool ==
  <<File(<<"I", "-", "0", "-", "1", "-", "c">>),
    File(<<"I", "-", "0", "-", "0", "1", "-", "c">>),
    File(<<"I", "-", "0", "-", "2", "-", "c">>),
    File(<<"I", "-", "0", "-", "x", "-", "c">>),
    File(<<"I", "-", "0">>),
    SubDir(<<"I", "-", "0", "-", "3", "-", "c">>)>>

\* the directories with at most n entries, the entries taken from a pool
DirContents(pool, n) ==
  {Dir(S) : S \in {T \in SUBSET Range(pool) : Cardinality(T) <= n}}

\* a directory treated as listable whether it exists or not
DirListedAnyway(base) == TRUE

\* os.listdir raises unless the directory exists
DirExists(base) == fs[base].exists

\* os.listdir: the names of the entries, in an order the caller cannot choose
Listdir(base) == Enumerations({e.name : e \in fs[base].entries})

\* os.path.isfile
IsFile(f_path) ==
  LET base == SubSeq(f_path, 1, Len(f_path) - 1)
      f    == f_path[Len(f_path)]
  IN /\ base \in DOMAIN fs
     /\ fs[base].exists
     /\ \E e \in fs[base].entries : e.name = f /\ e.isfile

\* ------------------------------------------------------------ _get_path_by_id
\* lambda f: int(f.split('.')[0])
DicomId(f) == PyInt(Split(f, ".")[1])

\* lambda f: int(f.split('-')[2])
ContourId(f) ==
  LET parts == Split(f, "-")
  IN IF Len(parts) < 3 THEN Raised ELSE PyInt(parts[3])

GetId(func, f) == IF func = "dicom" THEN DicomId(f) ELSE ContourId(f)

\* the loop body without the duplicate check: the last entry of an id wins
IndexEntryOverwriting(by_id, base, func, f) ==
  LET f_path == Join(base, f)
      got    == GetId(func, f)
  IN IF ~IsFile(f_path) THEN by_id
     ELSE IF ~got.ok THEN by_id
     ELSE DictPut(by_id, got.val, f_path)

\* the loop body without the isfile check: every entry has its id parsed
IndexEntryAnyEntry(by_id, base, func, f) ==
  LET f_path == Join(base, f)
      got    == GetId(func, f)
  IN IF ~got.ok THEN by_id
     ELSE IF got.val \in DOMAIN by_id THEN by_id
     ELSE DictPut(by_id, got.val, f_path)

\* one pass of the loop of _get_path_by_id over the directory entry f
IndexEntry(by_id, base, func, f) ==
  LET f_path == Join(base, f)
      got    == GetId(func, f)
  IN IF ~IsFile(f_path) THEN by_id
     ELSE IF ~got.ok THEN by_id
     ELSE IF got.val \in DOMAIN by_id THEN by_id
     ELSE DictPut(by_id, got.val, f_path)

\* the loop of _get_path_by_id over a whole enumeration, from entry k on
RECURSIVE IndexFrom(_, _, _, _, _)
IndexFrom(by_id, base, func, names, k) ==
  IF k > Len(names) THEN by_id
  ELSE IndexFrom(IndexEntry(by_id, base, func, names[k]), base, func, names,
                 k + 1)

\* _get_path_by_id(base, func) when listdir enumerates names
GetPathById(base, func, names) == IndexFrom(EmptyDict, base, func, names, 1)

\* _get_path_by_id called on its own: listdir raises if the directory is absent
GetPathByIdCall ==
  /\ ipc = "call"
  /\ IF ~DirExists(base_path)
     THEN /\ ipc' = "raised"
          /\ UNCHANGED <<listing, idx, path_by_id>>
     ELSE /\ \E names \in Listdir(base_path) : listing' = names
          /\ idx' = 1
          /\ path_by_id' = EmptyDict
          /\ ipc' = "loop"
  /\ UNCHANGED <<inputs, session, corr, stream, feeder, base_path, get_id_func>>

GetPathByIdLoop ==
  /\ ipc = "loop"
  /\ idx <= Len(listing)
  /\ path_by_id' = IndexEntry(path_by_id, base_path, get_id_func, listing[idx])
  /\ idx' = idx + 1
  /\ UNCHANGED <<inputs, session, corr, stream, feeder, ipc, base_path, get_id_func, listing>>

GetPathByIdReturn ==
  /\ ipc = "loop"
  /\ idx > Len(listing)
  /\ ipc' = "returned"
  /\ UNCHANGED <<inputs, session, corr, stream, feeder, base_path, get_id_func, listing, idx, path_by_id>>

\* ------------------------------------------------------------ _get_cid_by_did
DICOM_KEY == "patient_id"

CONTOUR_KEY == "original_id"

Row(d, c) == [patient_id |-> d, original_id |-> c]

\* the row csv.DictReader makes of a line when the header of the file names
\* only the columns fieldnames
RowUnder(fieldnames, row) == [f \in fieldnames |-> row[f]]

\* row[dicom_key] or row[contour_key] raises KeyError on the first row read
\* from a file whose header lacks the column
CidByDidRaises(rows) ==
  \E k \in 1..Len(rows) : ~({DICOM_KEY, CONTOUR_KEY} \subseteq DOMAIN rows[k])

\* a loop that keeps the link of the first row of a dicom id
RECURSIVE CidByDidFromFirstWins(_, _, _)
CidByDidFromFirstWins(by_did, rows, k) ==
  IF k > Len(rows) THEN by_did
  ELSE IF rows[k].patient_id \in DOMAIN by_did
       THEN CidByDidFromFirstWins(by_did, rows, k + 1)
       ELSE CidByDidFromFirstWins(
              DictPut(by_did, rows[k].patient_id, rows[k].original_id),
              rows, k + 1)

RECURSIVE CidByDidFrom(_, _, _)
CidByDidFrom(by_did, rows, k) ==
  IF k > Len(rows) THEN by_did
  ELSE CidByDidFrom(DictPut(by_did, rows[k].patient_id, rows[k].original_id),
                    rows, k + 1)

GetCidByDid(rows) == CidByDidFrom(EmptyDict, rows, 1)

\* ----------------------------------------------- _get_dicom_contour_path_tups
\* the pairs of one group with the common ids left in descending order
PairUpDescending(dicom_by_id, contour_by_id) ==
  LET common_ids == SortedInt((DOMAIN dicom_by_id) \cap (DOMAIN contour_by_id))
      n          == Len(common_ids)
  IN [k \in 1..n |->
        <<dicom_by_id[common_ids[n + 1 - k]], contour_by_id[common_ids[n + 1 - k]]>>]

\* the pairs of one group: the common ids in ascending order
PairUp(dicom_by_id, contour_by_id) ==
  LET common_ids == SortedInt((DOMAIN dicom_by_id) \cap (DOMAIN contour_by_id))
  IN [k \in 1..Len(common_ids) |->
        <<dicom_by_id[common_ids[k]], contour_by_id[common_ids[k]]>>]

\* the groups in natural order: a shorter id first, "P2" before "P10"
RECURSIVE SortedNatural(_)
SortedNatural(S) ==
  IF S = {} THEN <<>>
  ELSE LET m == CHOOSE x \in S : \A y \in S \ {x} :
                  Len(x) < Len(y) \/ (Len(x) = Len(y) /\ StrLess(x, y))
       IN <<m>> \o SortedNatural(S \ {m})

GroupOrderNatural(by_did) == SortedNatural(DOMAIN by_did)

\* the order in which the groups are visited
GroupOrder(by_did) == SortedStr(DOMAIN by_did)

\* random.seed(s): the generator state a seed leads to
SeedState(s) == s % RngStates

\* the next state of the generator after one draw
NextRng(r) == (r + 1) % RngStates

\* random.shuffle(x) from generator state r: for i from len(x)-1 down to 1,
\* swap x[i] with x[j], j drawn below i+1 (positions here are 1-based)
RECURSIVE ShuffleFrom(_, _, _)
ShuffleFrom(x, i, r) ==
  IF i <= 1 THEN x
  ELSE LET j == (r % i) + 1
           swapped == [x EXCEPT ![i] = x[j], ![j] = x[i]]
       IN ShuffleFrom(swapped, i - 1, NextRng(r))

Shuffle(x, r) == ShuffleFrom(x, Len(x), r)

\* the state of the generator after random.shuffle of a list of n elements
\* from state r: one draw for each position but the first
RngAfterShuffle(n, r) == IF n <= 1 THEN r ELSE (r + (n - 1)) % RngStates

\* the state shuffle starts from when the seed is never applied
ShuffleStateUnseeded(seed, r) == r

\* if random_seed is not None: seed(random_seed)
ShuffleState(seed, r) == IF seed # None THEN SeedState(seed[1]) ELSE r

\* the link file is read; a KeyError of _get_cid_by_did raises out of the
\* whole function
CorrCall ==
  /\ cpc = "call"
  /\ IF CidByDidRaises(link_rows)
     THEN /\ cpc' = "raised"
          /\ UNCHANGED <<cid_by_did, d_ids, path_tups>>
     ELSE /\ cid_by_did' = GetCidByDid(link_rows)
          /\ d_ids' = GroupOrder(cid_by_did')
          /\ path_tups' = <<>>
          /\ cpc' = "for"
  /\ UNCHANGED <<inputs, session, index, stream, feeder, d_id, c_id, dicom_path_by_id,
                 contour_path_by_id>>

\* one pass of the loop over the groups; a missing directory raises out of
\* the whole function
CorrGroup ==
  /\ cpc = "for"
  /\ d_ids # <<>>
  /\ LET d == Head(d_ids)
         c == cid_by_did[d]
     IN /\ d_id' = d
        /\ c_id' = c
        /\ d_ids' = Tail(d_ids)
        /\ IF ~DirExists(DicomBase(d))
           THEN /\ cpc' = "raised"
                /\ UNCHANGED <<dicom_path_by_id, contour_path_by_id, path_tups>>
           ELSE \E dnames \in Listdir(DicomBase(d)) :
                  /\ dicom_path_by_id' = GetPathById(DicomBase(d), "dicom", dnames)
                  /\ IF ~DirExists(ContourBase(c))
                     THEN /\ cpc' = "raised"
                          /\ UNCHANGED <<contour_path_by_id, path_tups>>
                     ELSE \E cnames \in Listdir(ContourBase(c)) :
                            /\ contour_path_by_id' =
                                 GetPathById(ContourBase(c), "contour", cnames)
                            /\ path_tups' = path_tups \o
                                 PairUp(dicom_path_by_id', contour_path_by_id')
                            /\ cpc' = "for"
  /\ UNCHANGED <<inputs, session, index, stream, feeder, cid_by_did>>

\* the end of the loop: shuffle if asked to, and return
CorrReturn ==
  /\ cpc = "for"
  /\ d_ids = <<>>
  /\ IF randomize
     THEN LET r == ShuffleState(random_seed, rng)
          IN /\ path_tups' = Shuffle(path_tups, r)
             /\ rng' = RngAfterShuffle(Len(path_tups), r)
     ELSE UNCHANGED <<path_tups, rng>>
  /\ cpc' = "returned"
  /\ UNCHANGED <<inputs, earlier_tups, index, stream, feeder, cid_by_did, d_ids, d_id, c_id, dicom_path_by_id,
                 contour_path_by_id>>

\* the caller keeps the returned list and calls the function once more with
\* the same arguments over the unchanged link file and directories
CallAgain ==
  /\ caller = "_get_dicom_contour_path_tups"
  /\ cpc = "returned"
  /\ earlier_tups = None
  /\ earlier_tups' = Some(path_tups)
  /\ cpc' = "call"
  /\ cid_by_did' = EmptyDict
  /\ d_ids' = <<>> /\ d_id' = <<>> /\ c_id' = <<>>
  /\ dicom_path_by_id' = EmptyDict /\ contour_path_by_id' = EmptyDict
  /\ path_tups' = <<>>
  /\ UNCHANGED <<inputs, rng, index, stream, feeder>>

\* ------------------------------------------------- _load_dicom_contour_paths
\* the (dicom, mask) tuple loaded from one pair of paths
\* parse_dicom_file(dicom_path)['pixel_data'].shape, <<rows, columns>>: the
\* image of slice 1 has 2 rows of 3 pixels, every other image is 2 by 2
PixelShape(dicom_path) ==
  IF DicomId(dicom_path[Len(dicom_path)]) = Returned(1) THEN <<2, 3>>
  ELSE <<2, 2>>

\* the shape of poly_to_mask(coords_list, width, height): height rows of
\* width pixels
PolyToMaskShape(width, height) == <<height, width>>

Sample(tup) ==
  LET shape  == PixelShape(tup[1])
      width  == shape[1]
      height == shape[2]
  IN [dicom |-> [pixel_data |-> tup[1], shape |-> shape],
      mask  |-> [coords |-> tup[2], shape |-> PolyToMaskShape(width, height)]]

\* -------------------------------------------------------- get_dicom_mask_tups
\* the consumer's first next(): the generator body starts with the correlation
StreamStart ==
  /\ caller = "get_dicom_mask_tups"
  /\ spc = "created"
  /\ cpc = "idle"
  /\ cpc' = "call"
  /\ spc' = "started"
  /\ UNCHANGED <<inputs, session, index, feeder, cid_by_did, d_ids, d_id, c_id,
                 dicom_path_by_id, contour_path_by_id, path_tups, s_i, samples>>

\* the correlation raised: the exception leaves the generator
StreamCorrRaised ==
  /\ spc = "started"
  /\ cpc = "raised"
  /\ spc' = "raised"
  /\ UNCHANGED <<inputs, session, index, feeder, corr, s_i, samples>>

\* the generator is inside a next(): the first one once the correlation has
\* returned, a later one from the yield it was suspended at
StreamRunning ==
  \/ spc = "started" /\ cpc = "returned"
  \/ spc = "suspended"

\* a generator that loads the pair after the next as well before it yields
StreamYieldReadingAhead ==
  /\ StreamRunning
  /\ s_i < Len(path_tups)
  /\ samples' = Append(samples, Sample(path_tups[s_i + 1]))
  /\ s_i' = Min(s_i + 2, Len(path_tups))
  /\ spc' = "suspended"
  /\ UNCHANGED <<inputs, session, index, feeder, corr>>

\* the next pair loads and is yielded
StreamYield ==
  /\ StreamRunning
  /\ s_i < Len(path_tups)
  /\ samples' = Append(samples, Sample(path_tups[s_i + 1]))
  /\ s_i' = s_i + 1
  /\ spc' = "suspended"
  /\ UNCHANGED <<inputs, session, index, feeder, corr>>

\* parse_dicom_file, parse_contour_file or poly_to_mask raises on the next pair
StreamLoadRaised ==
  /\ StreamRunning
  /\ s_i < Len(path_tups)
  /\ spc' = "raised"
  /\ UNCHANGED <<inputs, session, index, feeder, corr, s_i, samples>>

\* no pair is left: the generator returns
StreamStop ==
  /\ StreamRunning
  /\ s_i >= Len(path_tups)
  /\ spc' = "exhausted"
  /\ UNCHANGED <<inputs, session, index, feeder, corr, s_i, samples>>

\* ---------------------------------------------------------------- BatchFeeder
\* a split into n sections of len(x) // n each, the remainder left out
ArraySplitDroppingRest(x, n) ==
  LET each == Len(x) \div n
  IN [k \in 1..n |-> SubSeq(x, (k - 1) * each + 1, k * each)]

\* np.array_split(x, n): n sections, the first len(x) % n of them one longer
ArraySplit(x, n) ==
  LET each   == Len(x) \div n
      extras == Len(x) % n
      start(k) == (k - 1) * each + Min(k - 1, extras)
      size(k)  == each + (IF k <= extras THEN 1 ELSE 0)
  IN [k \in 1..n |-> SubSeq(x, start(k) + 1, start(k) + size(k))]

\* a batch whose targets are in the reverse of the order of the pairs
LoadBatchTargetsReversed(tups) ==
  [images  |-> [k \in 1..Len(tups) |-> Sample(tups[k]).dicom],
   targets |-> [k \in 1..Len(tups) |-> Sample(tups[Len(tups) + 1 - k]).mask]]

\* _load_batch: what a loader process puts on the queue
LoadBatch(tups) ==
  [images  |-> [k \in 1..Len(tups) |-> Sample(tups[k]).dicom],
   targets |-> [k \in 1..Len(tups) |-> Sample(tups[k]).mask]]

\* _load_next_batch returning True while _batch_num <= the number of chunks
LoadNextBatchOffByOne(ps, num, chunked) ==
  LET starts == num < Len(chunked)
      num2   == IF starts THEN num + 1 ELSE num
  IN [procs     |-> IF starts THEN Append(ps, "running") ELSE ps,
      batch_num |-> num2,
      ret       |-> num2 <= Len(chunked)]

\* a _load_next_batch that starts a process for every chunk left
LoadNextBatchStartingAll(ps, num, chunked) ==
  [procs     |-> ps \o [k \in 1..(Len(chunked) - num) |-> "running"],
   batch_num |-> IF num < Len(chunked) THEN Len(chunked) ELSE num,
   ret       |-> FALSE]

\* _load_next_batch: the processes and _batch_num after the call, and the
\* value it returns
LoadNextBatch(ps, num, chunked) ==
  LET starts == num < Len(chunked)
      num2   == IF starts THEN num + 1 ELSE num
  IN [procs     |-> IF starts THEN Append(ps, "running") ELSE ps,
      batch_num |-> num2,
      ret       |-> num2 < Len(chunked)]

\* __init__ after the correlation has returned
FeederBuilt ==
  /\ fpc = "init"
  /\ cpc = "returned"
  /\ LET chunked == ArraySplit(path_tups, batch_size)
         loaded  == LoadNextBatch(procs, batch_num, chunked)
     IN /\ path_tups_chunked' = chunked
        /\ procs' = loaded.procs
        /\ batch_num' = loaded.batch_num
        /\ have_next_batch' = loaded.ret
  /\ fpc' = "built"
  /\ UNCHANGED <<inputs, session, index, stream, corr, q, gpc, batches>>

\* __init__ when the correlation raised: no object is built
FeederRaised ==
  /\ fpc = "init"
  /\ cpc = "raised"
  /\ fpc' = "raised"
  /\ UNCHANGED <<inputs, session, index, stream, corr, batch_num, have_next_batch,
                 path_tups_chunked, q, procs, gpc, batches>>

\* `raise StopIteration` in a generator body: the end of the iteration before
\* PEP 479, a RuntimeError in the consumer since
RaiseStopIteration == {"exhausted", "RuntimeError"}

\* the consumer's next() on get_next_batch(), up to the q.get() it blocks in
\* or to the end of the body
Pull ==
  /\ fpc = "built"
  /\ gpc \in {"created", "yield_loop", "yield_last"}
  /\ IF gpc = "yield_last"
     THEN /\ gpc' \in RaiseStopIteration
          /\ UNCHANGED <<batch_num, have_next_batch, procs>>
     ELSE IF have_next_batch
     THEN LET loaded == LoadNextBatch(procs, batch_num, path_tups_chunked)
          IN /\ procs' = loaded.procs
             /\ batch_num' = loaded.batch_num
             /\ have_next_batch' = loaded.ret
             /\ gpc' = "get_loop"
     ELSE /\ gpc' = "get_last"
          /\ UNCHANGED <<batch_num, have_next_batch, procs>>
  /\ UNCHANGED <<inputs, session, index, stream, corr, fpc, path_tups_chunked, q, batches>>

\* a q.get() that returns the batch put last
QGetNewest ==
  /\ gpc \in {"get_loop", "get_last"}
  /\ q # <<>>
  /\ batches' = Append(batches, q[Len(q)])
  /\ q' = SubSeq(q, 1, Len(q) - 1)
  /\ gpc' = IF gpc = "get_loop" THEN "yield_loop" ELSE "yield_last"
  /\ UNCHANGED <<inputs, session, index, stream, corr, fpc, batch_num, have_next_batch,
                 path_tups_chunked, procs>>

\* q.get() returns the oldest batch on the queue, which is yielded
QGet ==
  /\ gpc \in {"get_loop", "get_last"}
  /\ q # <<>>
  /\ batches' = Append(batches, Head(q))
  /\ q' = Tail(q)
  /\ gpc' = IF gpc = "get_loop" THEN "yield_loop" ELSE "yield_last"
  /\ UNCHANGED <<inputs, session, index, stream, corr, fpc, batch_num, have_next_batch,
                 path_tups_chunked, procs>>

\* a loader process loads its chunk, puts the batch and exits
WorkerPut(k) ==
  /\ procs[k] = "running"
  /\ q' = Append(q, LoadBatch(path_tups_chunked[k]))
  /\ procs' = [procs EXCEPT ![k] = "exited"]
  /\ UNCHANGED <<inputs, session, index, stream, corr, fpc, batch_num, have_next_batch,
                 path_tups_chunked, gpc, batches>>

\* a load raises in a loader process: the process dies, nothing is put
WorkerRaised(k) ==
  /\ procs[k] = "running"
  /\ path_tups_chunked[k] # <<>>
  /\ procs' = [procs EXCEPT ![k] = "failed"]
  /\ UNCHANGED <<inputs, session, index, stream, corr, fpc, batch_num, have_next_batch,
                 path_tups_chunked, q, gpc, batches>>

\* ------------------------------------------------------------ initial states
\* the generator of the random module is in any state when a call is to
\* shuffle, and no call has returned yet
InitSession ==
  /\ rng \in IF randomize THEN 0..(RngStates - 1) ELSE {0}
  /\ earlier_tups = None

IdleCorr ==
  /\ cid_by_did = EmptyDict
  /\ d_ids = <<>>
  /\ d_id = <<>>
  /\ c_id = <<>>
  /\ dicom_path_by_id = EmptyDict
  /\ contour_path_by_id = EmptyDict
  /\ path_tups = <<>>

IdleIndex ==
  /\ listing = <<>>
  /\ idx = 0
  /\ path_by_id = EmptyDict

IdleStream ==
  /\ s_i = 0
  /\ samples = <<>>

IdleFeeder ==
  /\ batch_num = 0
  /\ have_next_batch = FALSE
  /\ path_tups_chunked = <<>>
  /\ q = <<>>
  /\ procs = <<>>
  /\ gpc = "created"
  /\ batches = <<>>

SeqsUpTo(S, n) == UNION {[1..m -> S] : m \in 0..n}

\* a lone call _get_path_by_id(base_path, get_id_func) on one directory
InitIndex ==
  /\ caller = "_get_path_by_id"
  /\ link_fieldnames = {DICOM_KEY, CONTOUR_KEY}
  /\ link_rows = <<>>
  /\ randomize = FALSE
  /\ random_seed = None
  /\ batch_size = 1
  /\ \E func \in {"dicom", "contour"} :
       /\ get_id_func = func
       /\ base_path = IF func = "dicom" THEN DicomBase(<<"P", "2">>)
                                        ELSE ContourBase(<<"C", "2">>)
       /\ \E dir \in {Missing} \cup
               DirContents(IF func = "dicom" THEN DicomPool ELSE ContourPool,
                           MaxEntries) :
            fs = [b \in Dirs |-> IF b = base_path THEN dir ELSE Missing]
  /\ ipc = "call"
  /\ cpc = "idle" /\ spc = "idle" /\ fpc = "idle"
  /\ InitSession /\ IdleCorr /\ IdleIndex /\ IdleStream /\ IdleFeeder

NextIndex == GetPathByIdCall \/ GetPathByIdLoop \/ GetPathByIdReturn

SpecIndex == InitIndex /\ [][NextIndex]_vars

\* the directories a link file refers to
Referenced(rows) ==
  {DicomBase(rows[k].patient_id) : k \in 1..Len(rows)} \cup
  {ContourBase(rows[k].original_id) : k \in 1..Len(rows)}

IsDicomBase(b) == b[1] = DICOM_DIR

\* "1.d", "01.d", "2.d"
CorrDicomPool == <<DicomPool[1], DicomPool[2], DicomPool[3]>>

\* "I-0-1-c", "I-0-2-c", "I-0-x-c"
CorrContourPool == <<ContourPool[1], ContourPool[3], ContourPool[4]>>

\* the links a link file may hold: "P2" linked to either contour group, and
\* "C1" linked from either dicom group
CorrRows ==
  {Row(<<"P", "1", "0">>, <<"C", "1">>), Row(<<"P", "2">>, <<"C", "2">>),
   Row(<<"P", "2">>, <<"C", "1">>)}

\* a lone call _get_dicom_contour_path_tups(dicom_dir, contour_dir, link_path,
\* randomize=False)
InitCorr ==
  /\ caller = "_get_dicom_contour_path_tups"
  /\ link_fieldnames = {DICOM_KEY, CONTOUR_KEY}
  /\ link_rows \in SeqsUpTo(CorrRows, MaxRows)
  /\ fs \in [Dirs -> {Missing} \cup DirContents(CorrDicomPool, MaxFiles)
                               \cup DirContents(CorrContourPool, MaxFiles)]
  /\ \A b \in Dirs :
       /\ b \notin Referenced(link_rows) => fs[b] = Missing
       /\ fs[b].entries \subseteq
            Range(IF IsDicomBase(b) THEN CorrDicomPool ELSE CorrContourPool)
  /\ randomize = FALSE
  /\ random_seed = None
  /\ batch_size = 1
  /\ cpc = "call"
  /\ ipc = "idle" /\ spc = "idle" /\ fpc = "idle"
  /\ base_path = <<>> /\ get_id_func = "dicom"
  /\ InitSession /\ IdleCorr /\ IdleIndex /\ IdleStream /\ IdleFeeder

NextCorr == CorrCall \/ CorrGroup \/ CorrReturn

SpecCorr == InitCorr /\ [][NextCorr]_vars

\* a lone call of _get_dicom_contour_path_tups over a link file of one row,
\* the two directories of its group holding any entries of the pools:
\* duplicate ids, names that do not parse and subdirectories
InitGroup ==
  /\ caller = "_get_dicom_contour_path_tups"
  /\ link_fieldnames = {DICOM_KEY, CONTOUR_KEY}
  /\ \E r \in CorrRows :
       /\ link_rows = <<r>>
       /\ \E dd \in {Missing} \cup DirContents(DicomPool, MaxEntries),
             cc \in {Missing} \cup DirContents(ContourPool, MaxEntries) :
            fs = [b \in Dirs |->
                    IF b = DicomBase(r.patient_id) THEN dd
                    ELSE IF b = ContourBase(r.original_id) THEN cc
                    ELSE Missing]
  /\ randomize = FALSE
  /\ random_seed = None
  /\ batch_size = 1
  /\ cpc = "call"
  /\ ipc = "idle" /\ spc = "idle" /\ fpc = "idle"
  /\ base_path = <<>> /\ get_id_func = "dicom"
  /\ InitSession /\ IdleCorr /\ IdleIndex /\ IdleStream /\ IdleFeeder

NextGroup == CorrCall \/ CorrGroup \/ CorrReturn \/ CallAgain

SpecGroup == InitGroup /\ [][NextGroup]_vars

\* "<k>.d" and "I-0-<k>-c", the files of slice k
SliceDicom(k) == File(<<DigitChars[k + 1], ".", "d">>)

SliceContour(k) == File(<<"I", "-", "0", "-", DigitChars[k + 1], "-", "c">>)

\* the link file of a full run: two groups, the later-sorting one first
RunRows == <<Row(<<"P", "2">>, <<"C", "2">>), Row(<<"P", "1", "0">>, <<"C", "1">>)>>

\* a full run of part 1 (get_dicom_mask_tups) or part 2 (BatchFeeder): each
\* dicom directory is absent or holds the first k slices, each contour
\* directory is absent or holds every slice
InitRun ==
  /\ caller \in {"get_dicom_mask_tups", "BatchFeeder"}
  /\ link_fieldnames = {DICOM_KEY, CONTOUR_KEY}
  /\ link_rows = RunRows
  /\ fs \in [Dirs -> {Missing} \cup
                     {Dir({SliceDicom(j) : j \in 1..k}) : k \in 0..MaxSlices} \cup
                     {Dir({SliceContour(j) : j \in 1..MaxSlices})}]
  /\ \A b \in Dirs :
       fs[b].entries \subseteq
         (IF IsDicomBase(b) THEN {SliceDicom(j) : j \in 1..MaxSlices}
                            ELSE {SliceContour(j) : j \in 1..MaxSlices})
  /\ \A c \in CIds : fs[ContourBase(c)] # Dir({})
  /\ randomize = (caller = "BatchFeeder")
  /\ random_seed = None
  /\ batch_size \in IF caller = "BatchFeeder" THEN 1..MaxBatchSize ELSE {1}
  /\ cpc = IF caller = "BatchFeeder" THEN "call" ELSE "idle"
  /\ fpc = IF caller = "BatchFeeder" THEN "init" ELSE "idle"
  /\ spc = IF caller = "BatchFeeder" THEN "idle" ELSE "created"
  /\ ipc = "idle"
  /\ base_path = <<>> /\ get_id_func = "dicom"
  /\ InitSession /\ IdleCorr /\ IdleIndex /\ IdleStream /\ IdleFeeder

\* the directories of a full run
RunDirs ==
  {f \in [Dirs -> {Missing} \cup
                  {Dir({SliceDicom(j) : j \in 1..k}) : k \in 0..MaxSlices} \cup
                  {Dir({SliceContour(j) : j \in 1..MaxSlices})}] :
     /\ \A b \in Dirs :
          f[b].entries \subseteq
            (IF IsDicomBase(b) THEN {SliceDicom(j) : j \in 1..MaxSlices}
                               ELSE {SliceContour(j) : j \in 1..MaxSlices})
     /\ \A c \in CIds : f[ContourBase(c)] # Dir({})}

\* two calls _get_dicom_contour_path_tups(dicom_dir, contour_dir, link_path,
\* randomize=True, random_seed) over the directories of a full run, with a
\* seed or without, the generator in any state before the first call
InitShuffle ==
  /\ caller = "_get_dicom_contour_path_tups"
  /\ link_fieldnames = {DICOM_KEY, CONTOUR_KEY}
  /\ link_rows = RunRows
  /\ fs \in RunDirs
  /\ randomize = TRUE
  /\ random_seed \in {None, Some(1), Some(2)}
  /\ batch_size = 1
  /\ cpc = "call"
  /\ ipc = "idle" /\ spc = "idle" /\ fpc = "idle"
  /\ base_path = <<>> /\ get_id_func = "dicom"
  /\ InitSession /\ IdleCorr /\ IdleIndex /\ IdleStream /\ IdleFeeder

SpecShuffle == InitShuffle /\ [][NextGroup]_vars

\* a lone call _get_dicom_contour_path_tups(dicom_dir, contour_dir, link_path)
\* over the directories of a full run and a link file whose header names
\* both columns, one of them or none (an empty file)
InitLink ==
  /\ caller = "_get_dicom_contour_path_tups"
  /\ link_fieldnames \in SUBSET {DICOM_KEY, CONTOUR_KEY}
  /\ link_rows \in IF link_fieldnames = {} THEN {<<>>}
                   ELSE SeqsUpTo({RowUnder(link_fieldnames, r) : r \in CorrRows},
                                 MaxRows)
  /\ fs \in RunDirs
  /\ randomize = FALSE
  /\ random_seed = None
  /\ batch_size = 1
  /\ cpc = "call"
  /\ ipc = "idle" /\ spc = "idle" /\ fpc = "idle"
  /\ base_path = <<>> /\ get_id_func = "dicom"
  /\ InitSession /\ IdleCorr /\ IdleIndex /\ IdleStream /\ IdleFeeder

SpecLink == InitLink /\ [][NextCorr]_vars

Init == InitRun

Next ==
  \/ CorrCall
  \/ CorrGroup
  \/ CorrReturn
  \/ StreamStart
  \/ StreamCorrRaised
  \/ StreamYield
  \/ StreamLoadRaised
  \/ StreamStop
  \/ FeederBuilt
  \/ FeederRaised
  \/ Pull
  \/ QGet
  \/ \E k \in 1..Len(procs) : WorkerPut(k)
  \/ \E k \in 1..Len(procs) : WorkerRaised(k)

Spec == Init /\ [][Next]_vars

\* a run of part 2 in which no loader process fails, every process that runs
\* finishes and the consumer keeps pulling
InitFeed == InitRun /\ caller = "BatchFeeder"

NextFeed ==
  \/ CorrCall
  \/ CorrGroup
  \/ CorrReturn
  \/ FeederBuilt
  \/ FeederRaised
  \/ Pull
  \/ QGet
  \/ \E k \in 1..Len(procs) : WorkerPut(k)

SpecFeed ==
  /\ InitFeed
  /\ [][NextFeed]_vars
  /\ WF_vars(Pull)
  /\ WF_vars(QGet)
  /\ WF_vars(\E k \in 1..Len(procs) : WorkerPut(k))

\* ------------------------------------------------------------ the claims
Ceil(a, b) == (a + b - 1) \div b

\* the samples of one batch, image i with target i
BatchSamples(b) ==
  [k \in 1..Len(b.images) |-> [dicom |-> b.images[k], mask |-> b.targets[k]]]

\* the samples of a sequence of batches, in the order handed out
RECURSIVE Flatten(_)
Flatten(bs) ==
  IF bs = <<>> THEN <<>> ELSE BatchSamples(Head(bs)) \o Flatten(Tail(bs))

Count(seq, x) == Cardinality({k \in 1..Len(seq) : seq[k] = x})

Failed == {k \in 1..Len(procs) : procs[k] = "failed"}

Running == {k \in 1..Len(procs) : procs[k] = "running"}

\* get_next_batch has run to the end of its body
Finished == gpc \in {"exhausted", "RuntimeError"}

\* the consumer is inside q.get()
InGet == gpc \in {"get_loop", "get_last"}

\* C1: a BatchFeeder built from L pairs with batch_size c holds ceil(L/c)
\* consecutive chunks, each of exactly c pairs except a shorter last one, and
\* a fully consumed get_next_batch has yielded ceil(L/c) batches.
C1_ChunksOfBatchSize ==
  fpc = "built" =>
    LET L == Len(path_tups)
        c == batch_size
        n == Len(path_tups_chunked)
    IN /\ n = Ceil(L, c)
       /\ \A k \in 1..n :
            path_tups_chunked[k] =
              SubSeq(path_tups, (k - 1) * c + 1, Min(k * c, L))
       /\ Finished => Len(batches) = Ceil(L, c)

\* C2: once a loader process has failed, the consumer is never blocked in
\* q.get() with the queue empty and no loader process left to fill it.
C2_FailureSurfaced ==
  Failed # {} => ~(InGet /\ q = <<>> /\ Running = {})

\* C3: when get_next_batch has run to its end and no loader failed, every
\* chunk was started once and the samples of the batches handed out are, one
\* to one, the samples of the pairs the feeder was built from.
C3_EveryPairOnce ==
  (Finished /\ Failed = {}) =>
    LET flat == Flatten(batches)
    IN /\ Len(procs) = Len(path_tups_chunked)
       /\ Len(batches) = Len(path_tups_chunked)
       /\ Len(flat) = Len(path_tups)
       /\ \A i \in 1..Len(path_tups) : Count(flat, Sample(path_tups[i])) = 1

C3_Witness ==
  /\ Finished
  /\ Len(path_tups) >= 3
  /\ batch_size >= 2
  /\ \E k \in 1..Len(path_tups_chunked) : Len(path_tups_chunked[k]) >= 2

\* the stream is drained: every chunk was started once, every loader has
\* exited, the queue is empty and every batch has been handed out
Drained ==
  /\ gpc \in {"yield_last", "exhausted", "RuntimeError"}
  /\ batch_num = Len(path_tups_chunked)
  /\ Len(procs) = Len(path_tups_chunked)
  /\ Running = {} /\ Failed = {}
  /\ q = <<>>
  /\ Len(batches) = Len(path_tups_chunked)

\* the q.get() calls made so far
Reads == Len(batches) + (IF InGet THEN 1 ELSE 0)

\* C4: without failures and under fair scheduling a built feeder is
\* eventually drained; on the way the reads never outnumber the chunks
\* started and a read always has a running loader or a queued batch to wait
\* for, and at the end the reads equal the chunks started.
C4_DrainsCompletely ==
  /\ [](Reads <= Len(procs))
  /\ [](InGet => (q # <<>> \/ Running # {}))
  /\ [](Drained => Reads = Len(procs))
  /\ (fpc = "built") ~> Drained

C4_Witness ==
  /\ Drained
  /\ Len(path_tups_chunked) >= 3
  /\ Len(path_tups) >= 3

\* C5: iterating get_next_batch to the end raises no error in the consumer.
C5_EndsWithoutError == gpc # "RuntimeError"

\* C6: at most one loader process is running at any time.
C6_OneLoaderAtATime == Cardinality(Running) <= 1

\* the slice ids of the regular files of a directory whose id parses
FileIds(base, func) ==
  {GetId(func, e.name).val :
     e \in {x \in fs[base].entries : x.isfile /\ GetId(func, x.name).ok}}

\* the group and the slice id a pair was made for, read off its dicom path
PairGroup(tup) == tup[1][2]

PairId(tup) == DicomId(tup[1][3]).val

\* C7: after the pass over a group, the pairs of that group are the last K
\* of the list, K the number of slice ids parsed from a regular file in both
\* directories of the group; they carry these ids in ascending order, each
\* once, and join the two paths indexed under the id, which lie in the
\* group's directories and parse to that id.
C7_OnePairPerCommonId ==
  (cpc = "for" /\ d_id # <<>>) =>
    LET common == FileIds(DicomBase(d_id), "dicom") \cap
                  FileIds(ContourBase(c_id), "contour")
        K      == Cardinality(common)
        n      == Len(path_tups)
    IN /\ {i \in 1..n : PairGroup(path_tups[i]) = d_id} = (n - K + 1)..n
       /\ {PairId(path_tups[i]) : i \in (n - K + 1)..n} = common
       /\ \A i \in (n - K + 1)..(n - 1) :
            PairId(path_tups[i]) < PairId(path_tups[i + 1])
       /\ \A i \in (n - K + 1)..n :
            LET t == path_tups[i]
            IN /\ t[1] = dicom_path_by_id[PairId(t)]
               /\ t[2] = contour_path_by_id[PairId(t)]
               /\ SubSeq(t[1], 1, 2) = DicomBase(d_id)
               /\ SubSeq(t[2], 1, 3) = ContourBase(c_id)
               /\ IsFile(t[1]) /\ IsFile(t[2])
               /\ ContourId(t[2][4]) = Returned(PairId(t))

C7_Witness ==
  /\ cpc = "for"
  /\ d_id # <<>>
  /\ Cardinality(FileIds(DicomBase(d_id), "dicom") \cap
                 FileIds(ContourBase(c_id), "contour")) = 2
  /\ Len(path_tups) > 2

\* some group of the link file lacks its dicom or its contour directory
SomeGroupDirMissing ==
  \E k \in 1..Len(link_rows) :
    LET d == link_rows[k].patient_id
    IN \/ ~fs[DicomBase(d)].exists
       \/ ~fs[ContourBase(GetCidByDid(link_rows)[d])].exists

\* C8: when a group of the link file lacks a directory the correlation never
\* returns a list, the sequential stream yields no sample, and no feeder is
\* built, no loader started and no batch produced.
C8_MissingDirectoryFailsRun ==
  SomeGroupDirMissing =>
    /\ cpc # "returned"
    /\ samples = <<>> /\ spc \notin {"suspended", "exhausted"}
    /\ fpc # "built" /\ procs = <<>> /\ q = <<>> /\ batches = <<>>

C8_Witness ==
  /\ SomeGroupDirMissing
  /\ cpc = "raised"
  /\ path_tups # <<>>
  /\ fpc = "raised" \/ spc = "raised"

\* C9: in the list returned without shuffling, whatever the row order of the
\* link file, a pair that comes before another has the smaller group id in
\* string order, or the same group id and the smaller slice id.
C9_GroupsInStringOrder ==
  (cpc = "returned" /\ ~randomize) =>
    \A i, j \in 1..Len(path_tups) :
      i < j =>
        \/ StrLess(PairGroup(path_tups[i]), PairGroup(path_tups[j]))
        \/ /\ PairGroup(path_tups[i]) = PairGroup(path_tups[j])
           /\ PairId(path_tups[i]) < PairId(path_tups[j])

C9_Witness ==
  /\ cpc = "returned"
  /\ ~randomize
  /\ Len(link_rows) = 2
  /\ StrLess(link_rows[2].patient_id, link_rows[1].patient_id)
  /\ \A k \in 1..2 :
       Count([i \in 1..Len(path_tups) |-> PairGroup(path_tups[i])],
             link_rows[k].patient_id) >= 1
  /\ Len(path_tups) >= 3

\* the entries already passed by the loop that are regular files with an id
Indexed == {k \in 1..(idx - 1) :
              /\ IsFile(Join(base_path, listing[k]))
              /\ GetId(get_id_func, listing[k]).ok}

IdAt(k) == GetId(get_id_func, listing[k]).val

\* C10: at every step of the loop the index maps each id met so far to the
\* path of the first entry that parsed to it; a directory that exists never
\* makes the call raise, and the call returns only after the last entry.
C10_FirstSeenKept ==
  /\ fs[base_path].exists => ipc # "raised"
  /\ ipc = "returned" => idx = Len(listing) + 1
  /\ ipc \in {"loop", "returned"} =>
       /\ DOMAIN path_by_id = {IdAt(k) : k \in Indexed}
       /\ \A k \in Indexed :
            \E j \in Indexed :
              /\ IdAt(j) = IdAt(k)
              /\ \A m \in Indexed : IdAt(m) = IdAt(k) => j <= m
              /\ path_by_id[IdAt(k)] = Join(base_path, listing[j])

\* a duplicate id was met, dropped, and a later entry was indexed
C10_Witness ==
  /\ ipc = "returned"
  /\ \E j, k, m \in Indexed :
       /\ j < k /\ k < m
       /\ IdAt(j) = IdAt(k)
       /\ IdAt(m) # IdAt(j)
       /\ path_by_id[IdAt(j)] = Join(base_path, listing[j])
       /\ path_by_id[IdAt(m)] = Join(base_path, listing[m])

\* the entries of a directory that the index has to pass over: those that are
\* not regular files and those whose name does not parse to a slice id
OddEntries(base, func) ==
  {e \in fs[base].entries : ~e.isfile \/ ~GetId(func, e.name).ok}

\* every path of an index names a regular file of the directory whose id parses
IndexClean(by_id, base, func) ==
  \A k \in DOMAIN by_id :
    /\ IsFile(by_id[k])
    /\ SubSeq(by_id[k], 1, Len(base)) = base
    /\ GetId(func, by_id[k][Len(by_id[k])]) = Returned(k)

\* C11: the correlation pass fails only when a directory is missing, never
\* because of an entry that is not a regular file or whose name does not
\* parse; after the pass over a group each index holds exactly the ids parsed
\* from the regular files of its directory (so the entries enumerated after
\* an unparsable one are indexed, and a subdirectory's name is never parsed
\* into an id), and no index path and no path of an emitted pair names an
\* entry that is not a regular file or does not parse.
C11_OddEntriesSkipped ==
  /\ cpc = "raised" => SomeGroupDirMissing
  /\ (cpc \in {"for", "returned"} /\ d_id # <<>>) =>
       /\ DOMAIN dicom_path_by_id = FileIds(DicomBase(d_id), "dicom")
       /\ DOMAIN contour_path_by_id = FileIds(ContourBase(c_id), "contour")
       /\ IndexClean(dicom_path_by_id, DicomBase(d_id), "dicom")
       /\ IndexClean(contour_path_by_id, ContourBase(c_id), "contour")
       /\ \A i \in 1..Len(path_tups) :
            /\ IsFile(path_tups[i][1]) /\ IsFile(path_tups[i][2])
            /\ DicomId(path_tups[i][1][3]).ok
            /\ ContourId(path_tups[i][2][4]).ok

\* a returned pass over a dicom directory holding a subdirectory, an
\* unparsable name and a slice, and a contour directory holding an
\* unparsable name and that slice
C11_Witness ==
  /\ cpc = "returned"
  /\ d_id # <<>>
  /\ \E e \in OddEntries(DicomBase(d_id), "dicom") : ~e.isfile
  /\ \E e \in OddEntries(DicomBase(d_id), "dicom") : e.isfile
  /\ OddEntries(ContourBase(c_id), "contour") # {}
  /\ Len(path_tups) = 1

\* C12: a second call with randomize=False over the same link file and the
\* same directory contents returns the list the first call returned: the
\* same pairs with the same paths in the same order.
C12_SameListTwice ==
  (cpc = "returned" /\ ~randomize /\ earlier_tups # None) =>
    path_tups = earlier_tups[1]

\* C13: every sample handed out by the sequential stream has a mask of the
\* shape of its image, rows by columns, whether the image is square or not.
C13_MaskShapeOfImage ==
  \A k \in 1..Len(samples) : samples[k].mask.shape = samples[k].dicom.shape

\* C14: the sequential stream has loaded exactly the pairs whose samples the
\* consumer holds, and these are the samples of the first pairs of the list
\* in list order; no sample is handed out before the correlation returned;
\* when the generator is exhausted every pair has been handed out, and when
\* a load raised the consumer holds the samples of the pairs before the
\* failing one. Each pull hands out at most one sample, the next one of the
\* list, and once the generator raised or is exhausted no sample follows.
C14_LazyInOrderUntilFailure ==
  /\ [](caller = "get_dicom_mask_tups" =>
          /\ s_i = Len(samples)
          /\ cpc # "returned" => samples = <<>>
          /\ Len(samples) <= Len(path_tups)
          /\ \A k \in 1..Len(samples) : samples[k] = Sample(path_tups[k])
          /\ spc = "exhausted" => Len(samples) = Len(path_tups)
          /\ (spc = "raised" /\ cpc = "returned") => Len(samples) < Len(path_tups))
  /\ [][/\ samples' # samples =>
             /\ samples' = Append(samples, Sample(path_tups[Len(samples) + 1]))
             /\ spc' = "suspended"
        /\ spc \in {"raised", "exhausted"} => samples' = samples]_vars

\* the load of the third of four pairs raised after two samples were handed
\* out
C14_Witness ==
  /\ caller = "get_dicom_mask_tups"
  /\ spc = "raised"
  /\ cpc = "returned"
  /\ Len(path_tups) = 4
  /\ samples = <<Sample(path_tups[1]), Sample(path_tups[2])>>

\* the last row of the link file that carries the dicom id d
LastRowOf(d) ==
  CHOOSE k \in 1..Len(link_rows) :
    /\ link_rows[k][DICOM_KEY] = d
    /\ \A j \in (k + 1)..Len(link_rows) : link_rows[j][DICOM_KEY] # d

\* C15: the mapping read from a link file with both columns has as keys
\* exactly the dicom ids of the rows and maps each to the contour id of the
\* last row carrying it; when no dicom id occurs twice every row's link is
\* in the mapping as written.
C15_LastRowWins ==
  (cpc \in {"for", "returned"} /\ ~CidByDidRaises(link_rows)) =>
    /\ DOMAIN cid_by_did =
         {link_rows[k][DICOM_KEY] : k \in 1..Len(link_rows)}
    /\ \A d \in DOMAIN cid_by_did :
         cid_by_did[d] = link_rows[LastRowOf(d)][CONTOUR_KEY]
    /\ (\A j, k \in 1..Len(link_rows) :
          j # k => link_rows[j][DICOM_KEY] # link_rows[k][DICOM_KEY]) =>
       \A k \in 1..Len(link_rows) :
         cid_by_did[link_rows[k][DICOM_KEY]] = link_rows[k][CONTOUR_KEY]

\* a file whose two rows carry the same dicom id and different contour ids
C15_Witness ==
  /\ cpc = "for"
  /\ Len(link_rows) = 2
  /\ link_fieldnames = {DICOM_KEY, CONTOUR_KEY}
  /\ link_rows[1][DICOM_KEY] = link_rows[2][DICOM_KEY]
  /\ link_rows[1][CONTOUR_KEY] # link_rows[2][CONTOUR_KEY]
  /\ cid_by_did[link_rows[1][DICOM_KEY]] = link_rows[2][CONTOUR_KEY]

\* C16: a call over a link file whose header lacks the dicom id column or
\* the contour id column never gets past reading the link file: no mapping
\* is returned to the correlation pass and no pair list to its caller.
C16_MissingColumnFails ==
  ~({DICOM_KEY, CONTOUR_KEY} \subseteq link_fieldnames) =>
    /\ cpc \in {"call", "raised"}
    /\ path_tups = <<>>

\* the lists a and b hold the same elements the same number of times
IsPermutation(a, b) ==
  /\ Len(a) = Len(b)
  /\ \A x \in Range(a) \cup Range(b) : Count(a, x) = Count(b, x)

\* C17: a second call with randomize=True and the same seed returns the list
\* the first call returned, whatever state the generator was in before either
\* call; and the step that shuffles and returns leaves a permutation of the
\* list built by the loop over the groups.
C17_SeededShuffleRepeats ==
  /\ []((cpc = "returned" /\ randomize /\ random_seed # None
         /\ earlier_tups # None) => path_tups = earlier_tups[1])
  /\ [][(cpc = "for" /\ cpc' = "returned" /\ randomize) =>
          IsPermutation(path_tups, path_tups')]_vars

\* two seeded calls have returned four pairs, a pair of the group that sorts
\* last in front
C17_Witness ==
  /\ cpc = "returned"
  /\ randomize
  /\ random_seed # None
  /\ earlier_tups # None
  /\ Len(path_tups) = 4
  /\ PairGroup(path_tups[1]) = <<"P", "2">>

\* C18: the queue holds the batches of the finished loaders that were not
\* handed out yet, in the order the loaders finished: a loader that finishes
\* appends its batch, and a batch handed to the consumer is the head of the
\* queue, the earliest finished one not handed out yet, whatever the order
\* the loaders were started in. A consumer waiting in q.get() while a batch
\* is on the queue is not blocked: the get can return.
C18_FirstFinishedFirstServed ==
  /\ []((InGet /\ q # <<>>) => ENABLED QGet)
  /\ [][/\ batches' # batches =>
             /\ InGet /\ q # <<>>
             /\ batches' = Append(batches, Head(q))
             /\ q' = Tail(q)
        /\ (q' # q /\ batches' = batches) =>
             \E k \in Running :
               /\ procs' = [procs EXCEPT ![k] = "exited"]
               /\ q' = Append(q, LoadBatch(path_tups_chunked[k]))]_vars

\* the first batch handed out is the batch of the second chunk, the first
\* chunk's batch still on the queue behind it
C18_Witness ==
  /\ Len(path_tups_chunked) >= 2
  /\ batches = <<LoadBatch(path_tups_chunked[2])>>
  /\ q = <<LoadBatch(path_tups_chunked[1])>>
  /\ path_tups_chunked[1] # path_tups_chunked[2]

\* the batch b holds the samples of every pair of the chunk, image i and
\* target i those of pair i
BatchOfChunk(b, chunk) ==
  /\ Len(b.images) = Len(chunk)
  /\ Len(b.targets) = Len(chunk)
  /\ \A i \in 1..Len(chunk) :
       /\ b.images[i] = Sample(chunk[i]).dicom
       /\ b.targets[i] = Sample(chunk[i]).mask

\* C19: the batches on the queue and those handed out are the batches of
\* distinct started chunks: each holds the samples of all pairs of its chunk
\* and of no other pair, image i and mask i from pair i of the chunk.
C19_BatchIsOneWholeChunk ==
  LET made == batches \o q
  IN \E f \in [1..Len(made) -> 1..Len(procs)] :
       /\ \A i, j \in 1..Len(made) : i # j => f[i] # f[j]
       /\ \A i \in 1..Len(made) :
            BatchOfChunk(made[i], path_tups_chunked[f[i]])

\* two batches were handed out, one of a chunk of two pairs and one of a
\* chunk of one pair
C19_Witness ==
  /\ Len(batches) = 2
  /\ \E i, j \in 1..2 :
       /\ Len(batches[i].images) = 2
       /\ Len(batches[j].images) = 1

\* the chunks whose loader was started and whose batch the consumer has not
\* been handed
InFlight == Len(procs) - Len(batches)

\* C20: at most 2 chunks are started and not yet handed to the consumer, and
\* a step starts a loader only if it is the construction of the BatchFeeder
\* or a pull of the consumer, each starting one loader at most.
C20_AtMostTwoInFlight ==
  /\ [](InFlight <= 2 /\ Len(procs) = batch_num)
  /\ [][Len(procs') # Len(procs) =>
          /\ Len(procs') = Len(procs) + 1
          /\ \/ fpc = "init" /\ fpc' = "built"
             \/ gpc \in {"created", "yield_loop"} /\ gpc' = "get_loop"]_vars

\* one batch was handed out, one is waiting on the queue and one loader is
\* still running
C20_Witness ==
  /\ InFlight = 2
  /\ Len(batches) = 1
  /\ Len(q) = 1
  /\ Cardinality(Running) = 1

====
